---- MODULE Spec2Model ----
(***************************************************************************)
(* A model of git-repo (src/src/main.rs): list the remotes of the current  *)
(* repository, choose one URL, rewrite an SSH style URL into an HTTPS one  *)
(* and launch a browser on it.                                             *)
(*                                                                         *)
(* Strings are sequences of one-character strings, so that splitting,      *)
(* trimming and parsing are computed character by character as the Rust    *)
(* standard library computes them.  An Option<T> is a sequence of length   *)
(* zero (None) or one (Some(x)).                                           *)
(***************************************************************************)
EXTENDS Integers, Sequences, FiniteSets, TLC

\* ------------------------------------------------------------------ bounds

\* Longest body of a URL handed to format_url in SpecFormat.
MaxUrlLen == 6
\* Longest remote listing handed to urls_from_output in SpecUrls.
MaxTextLen == 5
\* Most lines of a remote listing printed by git in Spec.
MaxLines == 3
\* Most prompts of the selector loop in one run (the code has no limit).
MaxPrompts == 3

\* ----------------------------------------------------------------- strings

Range(s) == { s[i] : i \in 1..Len(s) }

\* All strings over alphabet A of length at most n.
StringsUpTo(A, n) == UNION { [1..k -> A] : k \in 0..n }

\* char::is_whitespace, restricted to the characters the model uses.
is_whitespace(c) == c \in {" ", "\t", "\n", "\r"}

\* str::contains(char)
contains(s, c) == \E i \in 1..Len(s) : s[i] = c

\* str::find(char) from position i on: the first index, 0 when there is none.
RECURSIVE find(_, _, _)
find(s, c, i) ==
    IF i > Len(s) THEN 0
    ELSE IF s[i] = c THEN i
    ELSE find(s, c, i + 1)

\* A buggy variant of splitn2: splits at the last separator (rsplitn).
RECURSIVE rfind(_, _, _)
rfind(s, c, i) ==
    IF i < 1 THEN 0
    ELSE IF s[i] = c THEN i
    ELSE rfind(s, c, i - 1)

splitn2_last(s, c) ==
    LET i == rfind(s, c, Len(s))
    IN  IF i = 0 THEN <<s>>
        ELSE <<SubSeq(s, 1, i - 1), SubSeq(s, i + 1, Len(s))>>

\* str::splitn(2, c): the pieces before and after the first separator.
splitn2(s, c) ==
    LET i == find(s, c, 1)
    IN  IF i = 0 THEN <<s>>
        ELSE <<SubSeq(s, 1, i - 1), SubSeq(s, i + 1, Len(s))>>

\* Iterator::nth on a fresh iterator over the sequence items.
nth(items, n) == IF n < Len(items) THEN <<items[n + 1]>> ELSE <<>>

Https == <<"h", "t", "t", "p", "s", ":", "/", "/">>

\* A buggy variant of format_https: the scheme is left out.
format_no_scheme(domain, path) == domain \o <<"/">> \o path

\* format!("https://{domain}/{path}")
format_https(domain, path) == Https \o domain \o <<"/">> \o path

format_url(url) ==
    IF contains(url, ":")
    THEN LET iter == splitn2(url, ":")
             user_and_domain == nth(iter, 0)
             path == nth(iter, 1)
             domain == IF user_and_domain = <<>> THEN <<>>
                       ELSE nth(splitn2(user_and_domain[1], "@"), 1)
         IN  IF /\ domain # <<>>
                /\ path # <<>>
                /\ ~(domain[1] = <<>> \/ path[1] = <<>>)
             THEN format_https(domain[1], path[1])
             ELSE url
    ELSE url

\* ---------------------------------------------------------- test strings

Git == <<"g", "i", "t">>
GitHubHost == <<"g", "i", "t", "h", "u", "b", ".", "c", "o", "m">>
GitLabHost == <<"g", "i", "t", "l", "a", "b", ".", "c", "o", "m">>
RepoPath == <<"n", "8", "h", "e", "n", "r", "i", "e", "/",
              "g", "i", "t", "-", "r", "e", "p", "o", ".", "g", "i", "t">>

GitHubSsh == Git \o <<"@">> \o GitHubHost \o <<":">> \o RepoPath
GitLabSsh == Git \o <<"@">> \o GitLabHost \o <<":">> \o RepoPath
GitHubHttps == Https \o GitHubHost \o <<"/">> \o RepoPath
GitLabHttps == Https \o GitLabHost \o <<"/">> \o RepoPath

\* --------------------------------------------------- the remote listing

\* The last character is dropped when it is a carriage return.
strip_cr(l) ==
    IF Len(l) > 0 /\ l[Len(l)] = "\r" THEN SubSeq(l, 1, Len(l) - 1) ELSE l

\* str::lines: the text is cut after each "\n"; a piece that ended in "\n"
\* loses it and then a "\r" before it; no line follows a final "\n".
RECURSIVE lines(_)
lines(s) ==
    IF s = <<>> THEN <<>>
    ELSE LET i == find(s, "\n", 1)
         IN  IF i = 0 THEN <<s>>
             ELSE <<strip_cr(SubSeq(s, 1, i - 1))>>
                      \o lines(SubSeq(s, i + 1, Len(s)))

\* The index of the first whitespace character from i on, Len(s) + 1 when
\* there is none.
RECURSIVE find_whitespace(_, _)
find_whitespace(s, i) ==
    IF i > Len(s) THEN i
    ELSE IF is_whitespace(s[i]) THEN i
    ELSE find_whitespace(s, i + 1)

\* A buggy variant of split_whitespace: str::split(' '), which cuts at
\* every single space and keeps the empty pieces.
RECURSIVE split_space(_)
split_space(s) ==
    LET i == find(s, " ", 1)
    IN  IF i = 0 THEN <<s>>
        ELSE <<SubSeq(s, 1, i - 1)>> \o split_space(SubSeq(s, i + 1, Len(s)))

\* str::split_whitespace: the maximal runs of non-whitespace characters.
RECURSIVE split_whitespace(_)
split_whitespace(s) ==
    IF s = <<>> THEN <<>>
    ELSE IF is_whitespace(s[1]) THEN split_whitespace(Tail(s))
    ELSE LET e == find_whitespace(s, 1)
         IN  <<SubSeq(s, 1, e - 1)>> \o split_whitespace(SubSeq(s, e, Len(s)))

\* filter_map over the lines, collected into a HashSet.
urls_from_output(output) ==
    LET fields == { nth(split_whitespace(line), 1) : line \in Range(lines(output)) }
    IN  { f[1] : f \in fields \ {<<>>} }

\* ------------------------------------------------------- the selector

\* str::trim
RECURSIVE trim_start(_)
trim_start(s) ==
    IF s # <<>> /\ is_whitespace(s[1]) THEN trim_start(Tail(s)) ELSE s

RECURSIVE trim_end(_)
trim_end(s) ==
    IF s # <<>> /\ is_whitespace(s[Len(s)])
    THEN trim_end(SubSeq(s, 1, Len(s) - 1))
    ELSE s

trim(s) == trim_end(trim_start(s))

Digits == <<"0", "1", "2", "3", "4", "5", "6", "7", "8", "9">>

\* The value of a decimal digit.
to_digit(c) == (CHOOSE i \in 1..Len(Digits) : Digits[i] = c) - 1

RECURSIVE to_number(_, _)
to_number(digits, acc) ==
    IF digits = <<>> THEN acc
    ELSE to_number(Tail(digits), acc * 10 + to_digit(digits[1]))

\* str::parse::<usize>: an optional "+", then one or more decimal digits.
\* The lines the model feeds hold at most two digits, so the value never
\* reaches the PosOverflow case.
parse_usize(s) ==
    IF s = <<>> THEN <<"Err", "cannot parse integer from empty string">>
    ELSE LET digits == IF s[1] = "+" THEN Tail(s) ELSE s
         IN  IF digits = <<>> \/ \E i \in 1..Len(digits) : digits[i] \notin Range(Digits)
             THEN <<"Err", "invalid digit found in string">>
             ELSE <<"Ok", to_number(digits, 0)>>

\* Iterator::nth on the HashSet iterator that has already yielded pos of
\* its items: it skips n items and yields the next one.  The iterator is
\* fused: once exhausted it stays exhausted.
iter_nth(items, pos, n) ==
    IF pos + n < Len(items)
    THEN [item |-> <<items[pos + n + 1]>>, pos |-> pos + n + 1]
    ELSE [item |-> <<>>, pos |-> Len(items)]

\* A buggy variant of match_input: a parse error is not reported.
match_input_silent(line, items, pos) ==
    LET parsed == parse_usize(trim(line))
        r == iter_nth(items, pos, parsed[2])
    IN  IF parsed[1] = "Ok"
        THEN [return |-> r.item, report |-> <<>>, pos |-> r.pos]
        ELSE [return |-> <<>>, report |-> <<>>, pos |-> pos]

\* The match on the parsed input of one pass of the loop: what the selector
\* returns (None: it loops), what it writes to standard error, and where
\* the iterator stands afterwards.
match_input(line, items, pos) ==
    LET parsed == parse_usize(trim(line))
        r == iter_nth(items, pos, parsed[2])
    IN  IF parsed[1] = "Ok"
        THEN [return |-> r.item, report |-> <<>>, pos |-> r.pos]
        ELSE [return |-> <<>>, report |-> <<parsed[2]>>, pos |-> pos]

\* A buggy variant of match_len: the empty set is sent to the selector.
match_len_no_zero(n) == IF n = 1 THEN "one" ELSE "many"

\* A buggy variant of match_len: a single URL is sent to the selector.
match_len_no_one(n) == IF n = 0 THEN "zero" ELSE "many"

\* The arms of the match on urls.len().
match_len(n) == IF n = 0 THEN "zero" ELSE IF n = 1 THEN "one" ELSE "many"

\* ------------------------------------------------------- the launcher

\* env::var: the value when the variable is set to valid Unicode.
env_var(v) ==
    IF v = <<>> THEN <<"Err", "NotPresent">>
    ELSE IF v[1] = "NotUnicode" THEN <<"Err", "NotUnicode">>
    ELSE <<"Ok", v[2]>>

\* A buggy variant of command: BROWSER is ignored.
command_firefox(os, browser_env) ==
    IF os = "macos" THEN <<"open">>
    ELSE IF os = "linux" THEN <<"firefox">>
    ELSE <<>>

\* The match on OS: the program to run, None where the match panics.
command(os, browser_env) ==
    IF os = "macos" THEN <<"open">>
    ELSE IF os = "linux"
    THEN LET var == env_var(browser_env)
         IN  <<IF var[1] = "Ok" THEN var[2] ELSE "firefox">>
    ELSE <<>>

\* A buggy variant of open_result: a failing browser is an error.
open_result_checked(outcome) ==
    IF outcome = <<0>> THEN <<"Ok">> ELSE <<"Err", "browser">>

\* Ok(cmd.arg(url).status()?): an error only when the child could not be
\* spawned or waited for; its exit status is passed on unread.
open_result(outcome) ==
    IF outcome = <<>> THEN <<"Err", "browser">> ELSE <<"Ok">>

\* A buggy variant of launch_arg: the URL is passed on as it was chosen.
launch_arg_raw(u) == u

\* The argument main hands to open_url.
launch_arg(u) == format_url(u)

\* The status the process ends with: 0 when main returns Ok, 1 when it
\* returns Err, 101 when it panics.
exit_status(res) ==
    IF res[1] = "Ok" THEN 0 ELSE IF res[1] = "Err" THEN 1 ELSE 101

\* ------------------------------------------------------------ the state

VARIABLES
    pc,          \* where main stands
    OS,          \* std::env::consts::OS of the build
    BROWSER,     \* the BROWSER environment variable: <<>> when unset
    raw_output,  \* main's raw_output
    urls,        \* main's urls, a HashSet
    iter_order,  \* the order in which urls.iter() yields the set
    iter_pos,    \* how many items the iterator handed to the selector has yielded
    stdout,      \* what was written to standard output
    stderr,      \* what was written to standard error
    reads,       \* how many times standard input was read
    line_read,   \* the last line standard input delivered
    url,         \* main's url: None or the chosen URL
    formatted,   \* the result of format_url
    cmds,        \* the commands run, in order
    result,      \* what main returned: <<>> while it runs
    exit_code    \* the status the process ended with: <<>> while it runs

vars == <<pc, OS, BROWSER, raw_output, urls, iter_order, iter_pos, stdout,
          stderr, reads, line_read, url, formatted, cmds, result, exit_code>>

Platforms == {"macos", "linux", "windows"}

\* BROWSER unset, set to bytes that are not Unicode, or set to a name.
BrowserEnv == {<<>>, <<"NotUnicode", "chrom\\xFF">>, <<"Unicode", "chromium">>}

Origin == <<"o", "r", "i", "g", "i", "n">>
Mirror == <<"n", "8", "h", "e", "n", "r", "i", "e">>
Fetch == <<"(", "f", "e", "t", "c", "h", ")">>
Push == <<"(", "p", "u", "s", "h", ")">>

\* A line of `git remote --verbose`.
RemoteLine(name, u, direction) == name \o <<"\t">> \o u \o <<" ">> \o direction

\* Three remote URLs, kept short: two in SSH form and one in HTTPS form.
SshA == <<"g", "@", "a", ":", "r">>
SshB == <<"g", "@", "b", ":", "r">>
WebC == Https \o <<"c", "/", "r">>

\* The lines git may print: remotes, a line of one field, an empty line.
LinePool ==
    { RemoteLine(<<"o">>, SshA, Fetch),
      RemoteLine(<<"o">>, SshA, Push),
      RemoteLine(<<"m">>, SshB, Fetch),
      RemoteLine(<<"w">>, WebC, Fetch),
      <<"o">>,
      <<>> }

RECURSIVE join_lines(_)
join_lines(ls) ==
    IF ls = <<>> THEN <<>> ELSE ls[1] \o <<"\n">> \o join_lines(Tail(ls))

GitOutputs == { join_lines(ls) : ls \in StringsUpTo(LinePool, MaxLines) }

\* The lines the user may type; <<>> is the end of input.
InputLines ==
    { <<"0", "\n">>, <<"1", "\n">>, <<"2", "\n">>, <<"7", "\n">>,
      <<" ", "1", " ", "\n">>, <<"+", "1", "\n">>, <<"-", "1", "\n">>,
      <<"x", "\n">>, <<"\n">>, <<>> }

\* What the operating system answers to the calls of one pass of the loop
\* whose error the code hands on with `?`: flush, read_line and the write
\* to standard error.
IoOutcomes == {"ok", "flush fails", "read fails", "stderr fails"}

\* How running the browser ends: not spawned, or its exit status.
SpawnOutcomes == {<<>>, <<0>>, <<1>>}

Prompt == "Choose a number from above: "

Prompts == Cardinality({ i \in 1..Len(stdout) : stdout[i] = Prompt })

GitCommand(spawned) ==
    [prog |-> "git", args |-> <<"remote", "--verbose">>,
     spawned |-> spawned, status |-> <<>>]

\* The orders in which a HashSet may yield its items.
Orders(S) ==
    { o \in [1..Cardinality(S) -> S] : \A i, j \in 1..Cardinality(S) : o[i] = o[j] => i = j }

Init ==
    /\ pc = "start"
    /\ OS \in Platforms
    /\ BROWSER \in BrowserEnv
    /\ raw_output = <<>>
    /\ urls = {}
    /\ iter_order = <<>>
    /\ iter_pos = 0
    /\ stdout = <<>>
    /\ stderr = <<>>
    /\ reads = 0
    /\ line_read = <<>>
    /\ url = <<>>
    /\ formatted = <<>>
    /\ cmds = <<>>
    /\ result = <<>>
    /\ exit_code = <<>>

\* main ends with res, and the process with the status that goes with it.
Terminate(res) ==
    /\ result' = res
    /\ exit_code' = <<exit_status(res)>>
    /\ pc' = "done"

\* let raw_output = git_output()?;
git_output ==
    /\ pc = "start"
    /\ \/ \E out \in GitOutputs :
            /\ raw_output' = out
            /\ cmds' = Append(cmds, GitCommand(TRUE))
            /\ pc' = "listed"
            /\ UNCHANGED <<result, exit_code>>
       \/ /\ cmds' = Append(cmds, GitCommand(FALSE))
          /\ Terminate(<<"Err", "git">>)
          /\ UNCHANGED raw_output
    /\ UNCHANGED <<OS, BROWSER, urls, iter_order, iter_pos, stdout, stderr,
                   reads, line_read, url, formatted>>

\* let urls = urls_from_output(raw_output);  raw_output is moved.
extract_urls ==
    /\ pc = "listed"
    /\ urls' = urls_from_output(raw_output)
    /\ iter_order' \in Orders(urls')
    /\ raw_output' = <<>>
    /\ pc' = "extracted"
    /\ UNCHANGED <<OS, BROWSER, iter_pos, stdout, stderr, reads, line_read,
                   url, formatted, cmds, result, exit_code>>

\* let url = choose_remote_url(&urls)?;  up to the call of select_from_list.
choose_remote_url ==
    /\ pc = "extracted"
    /\ LET arm == match_len(Cardinality(urls))
       IN  IF arm = "zero"
           THEN /\ Terminate(<<"Err", "No URL found">>)
                /\ UNCHANGED <<url, iter_pos>>
           ELSE IF arm = "one"
           THEN /\ url' = nth(iter_order, 0)
                /\ pc' = "chosen"
                /\ UNCHANGED <<iter_pos, result, exit_code>>
           ELSE /\ iter_pos' = 0
                /\ pc' = "select_from_list"
                /\ UNCHANGED <<url, result, exit_code>>
    /\ UNCHANGED <<OS, BROWSER, raw_output, urls, iter_order, stdout, stderr,
                   reads, line_read, formatted, cmds>>

\* The numbered list: what enumerate() yields from the iterator's position
\* on, one line each.
Enumerated(items, pos) ==
    [idx \in 1..(Len(items) - pos) |-> <<idx - 1, items[pos + idx]>>]

\* select_from_list, the for loop: it prints the list and drains the iterator.
select_from_list_enumerate ==
    /\ pc = "select_from_list"
    /\ stdout' = stdout \o Enumerated(iter_order, iter_pos)
    /\ iter_pos' = Len(iter_order)
    /\ pc' = "select_loop"
    /\ UNCHANGED <<OS, BROWSER, raw_output, urls, iter_order, stderr, reads,
                   line_read, url, formatted, cmds, result, exit_code>>

\* select_from_list, one pass of the loop: prompt, flush, read a line,
\* parse it and resolve it against the iterator.  The buffer is cleared at
\* the end of the pass, so each pass parses the line it read and no more.
select_from_list_prompt ==
    /\ pc = "select_loop"
    /\ Prompts < MaxPrompts
    /\ stdout' = Append(stdout, Prompt)
    /\ \E line \in InputLines, io \in IoOutcomes :
         LET m == match_input(line, iter_order, iter_pos)
         IN  IF io = "flush fails"
             THEN /\ Terminate(<<"Err", "io">>)
                  /\ UNCHANGED <<reads, line_read, iter_pos, stderr, url>>
             ELSE IF io = "read fails"
             THEN /\ reads' = reads + 1
                  /\ Terminate(<<"Err", "io">>)
                  /\ UNCHANGED <<line_read, iter_pos, stderr, url>>
             ELSE IF io = "stderr fails" /\ m.report # <<>>
             THEN /\ reads' = reads + 1
                  /\ line_read' = line
                  /\ Terminate(<<"Err", "io">>)
                  /\ UNCHANGED <<iter_pos, stderr, url>>
             ELSE /\ reads' = reads + 1
                  /\ line_read' = line
                  /\ iter_pos' = m.pos
                  /\ stderr' = stderr \o m.report
                  /\ url' = m.return
                  /\ pc' = IF m.return # <<>> THEN "chosen" ELSE "select_loop"
                  /\ UNCHANGED <<result, exit_code>>
    /\ UNCHANGED <<OS, BROWSER, raw_output, urls, iter_order, formatted, cmds>>

\* open_url(format_url(url))?; Ok(())
open_url ==
    /\ pc = "chosen"
    /\ formatted' = launch_arg(url[1])
    /\ LET cmd == command(OS, BROWSER)
       IN  IF cmd = <<>>
           THEN /\ Terminate(<<"panic", "not implemented">>)
                /\ UNCHANGED cmds
           ELSE \E outcome \in SpawnOutcomes :
                  /\ cmds' = Append(cmds, [prog |-> cmd[1],
                                           args |-> <<formatted'>>,
                                           spawned |-> outcome # <<>>,
                                           status |-> outcome])
                  /\ Terminate(open_result(outcome))
    /\ UNCHANGED <<OS, BROWSER, raw_output, urls, iter_order, iter_pos, stdout,
                   stderr, reads, line_read, url>>

Next ==
    \/ git_output
    \/ extract_urls
    \/ choose_remote_url
    \/ select_from_list_enumerate
    \/ select_from_list_prompt
    \/ open_url

Spec == Init /\ [][Next]_vars

\* ------------------------------------------- format_url on its own

FormatAlphabet == {"a", "@", ":"}

FormatPrefixes == {<<>>, Https, Https \o <<"a", "/">>, Git \o <<"@">>}

\* The URLs handed to format_url: every short string behind each prefix,
\* and the URLs of tests::test_format_url.
FormatInputs ==
    { p \o b : p \in FormatPrefixes, b \in StringsUpTo(FormatAlphabet, MaxUrlLen) }
        \cup {GitHubSsh, GitLabSsh, GitLabHttps}

\* The variables format_url does not touch.
Idle ==
    /\ OS = "linux"
    /\ BROWSER = <<>>
    /\ urls = {}
    /\ iter_order = <<>>
    /\ iter_pos = 0
    /\ stdout = <<>>
    /\ stderr = <<>>
    /\ reads = 0
    /\ line_read = <<>>
    /\ cmds = <<>>
    /\ result = <<>>
    /\ exit_code = <<>>

InitFormat ==
    /\ pc = "format"
    /\ url \in { <<u>> : u \in FormatInputs }
    /\ formatted = <<>>
    /\ raw_output = <<>>
    /\ Idle

\* format_url(url)
format_once ==
    /\ pc = "format"
    /\ formatted' = format_url(url[1])
    /\ pc' = "formatted"
    /\ UNCHANGED <<OS, BROWSER, raw_output, urls, iter_order, iter_pos, stdout,
                   stderr, reads, line_read, url, cmds, result, exit_code>>

\* format_url(format_url(url)): the first result is the second input.
format_twice ==
    /\ pc = "formatted"
    /\ url' = <<formatted>>
    /\ formatted' = format_url(formatted)
    /\ pc' = "reformatted"
    /\ UNCHANGED <<OS, BROWSER, raw_output, urls, iter_order, iter_pos, stdout,
                   stderr, reads, line_read, cmds, result, exit_code>>

NextFormat ==
    \/ format_once
    \/ format_twice

SpecFormat == InitFormat /\ [][NextFormat]_vars

\* ------------------------------------- urls_from_output on its own

TextAlphabet == {"a", "b", " ", "\n", "\r"}

Spaces8 == <<" ", " ", " ", " ", " ", " ", " ", " ">>

\* The input of tests::test_urls_from_output.
TestRemotes ==
    Mirror \o Spaces8 \o GitLabSsh \o <<" ">> \o Fetch \o <<"\n">>
    \o Mirror \o Spaces8 \o GitLabSsh \o <<" ">> \o Push \o <<"\n">>
    \o Origin \o <<" ", " ">> \o GitHubSsh \o <<" ">> \o Fetch \o <<"\n">>
    \o Origin \o <<" ", " ">> \o GitHubSsh \o <<" ">> \o Push

\* The listings handed to urls_from_output: every short text, and the
\* listing of the test.
TextInputs == StringsUpTo(TextAlphabet, MaxTextLen) \cup {TestRemotes}

InitUrls ==
    /\ pc = "listed"
    /\ raw_output \in TextInputs
    /\ url = <<>>
    /\ formatted = <<>>
    /\ Idle

NextUrls == extract_urls

SpecUrls == InitUrls /\ [][NextUrls]_vars

\* ------------------------------------------------------------ the claims

\* The index a line names: None when the line does not parse.
IndexOf(line) ==
    LET parsed == parse_usize(trim(line))
    IN  IF parsed[1] = "Ok" THEN <<parsed[2]>> ELSE <<>>

\* The selector was entered and has printed its list.
SelectorEntered == pc \in {"select_loop", "chosen", "done"} /\ stdout # <<>>

\* The step is a pass of the selector loop that read a line and met no
\* input/output error.
LoopPassRead ==
    /\ pc = "select_loop"
    /\ reads' = reads + 1
    /\ result' # <<"Err", "io">>

\* C1: with two or more candidates, the first input line that parses as an
\* index k within the printed list makes the selector return the candidate
\* printed with index k; until then every line read was answered by exactly
\* one prompt.
C1_FirstValidLineReturns ==
    /\ (/\ SelectorEntered
        /\ reads > 0
        /\ result # <<"Err", "io">>
        /\ IndexOf(line_read) # <<>>
        /\ IndexOf(line_read)[1] < Cardinality(urls))
       => /\ pc \in {"chosen", "done"}
          /\ url = <<stdout[IndexOf(line_read)[1] + 1][2]>>
    /\ pc = "select_loop" => Prompts = reads

Chose ==
    /\ pc \notin {"start", "listed", "extracted"}
    /\ Len(cmds) >= 1
    /\ cmds[1].spawned

\* C3: on the empty set choose_remote_url fails with "No URL found" with
\* no prompt and no read of standard input, and main ends with that error
\* without running a browser.
C3_EmptySetFails ==
    (Chose /\ urls = {})
    => /\ pc = "done"
       /\ result = <<"Err", "No URL found">>
       /\ stdout = <<>>
       /\ stderr = <<>>
       /\ reads = 0
       /\ Len(cmds) = 1

\* main has ended with the not-found error on an empty set.
C3_Witness ==
    /\ pc = "done"
    /\ Chose
    /\ urls = {}
    /\ result = <<"Err", "No URL found">>
    /\ stdout = <<>>

\* C4: on a set of exactly one URL choose_remote_url returns that URL with
\* nothing written to standard output or standard error and nothing read
\* from standard input; the selector is never entered.
C4_SingleUrlDirect ==
    (Chose /\ Cardinality(urls) = 1)
    => /\ pc \in {"chosen", "done"}
       /\ url = <<CHOOSE u \in urls : TRUE>>
       /\ stdout = <<>>
       /\ stderr = <<>>
       /\ reads = 0

\* choose_remote_url has returned the only URL of the set.
C4_Witness ==
    /\ pc = "chosen"
    /\ urls = {SshA}
    /\ url = <<SshA>>
    /\ stdout = <<>>
    /\ reads = 0

\* The rule of the specification, by positions: c is the first colon, a the
\* first "@" before it.
RefFormat(x) ==
    LET colons == { i \in 1..Len(x) : x[i] = ":" }
        c == CHOOSE i \in colons : \A j \in colons : i <= j
        ats == { i \in 1..(c - 1) : x[i] = "@" }
        a == CHOOSE i \in ats : \A j \in ats : i <= j
    IN  IF colons = {} THEN x
        ELSE IF ats = {} THEN x
        ELSE IF a + 1 > c - 1 \/ c + 1 > Len(x) THEN x
        ELSE Https \o SubSeq(x, a + 1, c - 1) \o <<"/">> \o SubSeq(x, c + 1, Len(x))

\* C5: format_url follows the rule: split at the first colon, take what
\* follows the first "@" of the prefix as the domain, and give
\* https://domain/path when both are non-empty; otherwise the input comes
\* back unchanged.  git@github.com:n8henrie/git-repo.git gives
\* https://github.com/n8henrie/git-repo.git.
C5_FormatRule ==
    pc = "formatted"
    => /\ formatted = RefFormat(url[1])
       /\ url[1] = GitHubSsh => formatted = GitHubHttps
       /\ url[1] = GitLabSsh => formatted = GitLabHttps
       /\ url[1] = GitLabHttps => formatted = GitLabHttps

\* format_url has rewritten the SSH URL of the test.
C5_Witness ==
    /\ pc = "formatted"
    /\ url = <<GitHubSsh>>
    /\ formatted = GitHubHttps

\* C6: format_url is idempotent: applied to its own result it gives that
\* result again, for inputs in https://host/path form and for all others.
C6_Idempotent ==
    /\ pc = "reformatted" => formatted = url[1]
    /\ (/\ pc = "formatted"
        /\ Len(url[1]) >= Len(Https)
        /\ SubSeq(url[1], 1, Len(Https)) = Https)
       => formatted = url[1]

\* format_url was applied twice and the second input was an HTTPS URL.
C6_Witness ==
    /\ pc = "reformatted"
    /\ url = <<GitLabHttps>>
    /\ formatted = GitLabHttps

IsField(t, i) == ~is_whitespace(t[i])

\* Where the fields of the text start: a field is a maximal run of
\* characters that are not whitespace.
FieldStarts(t) ==
    { i \in 1..Len(t) : IsField(t, i) /\ (i = 1 \/ ~IsField(t, i - 1)) }

FieldEnd(t, i) ==
    CHOOSE e \in i..Len(t) :
        /\ \A k \in i..e : IsField(t, k)
        /\ e = Len(t) \/ ~IsField(t, e + 1)

\* The number of the line position i lies on.
LineOf(t, i) == Cardinality({ k \in 1..(i - 1) : t[k] = "\n" })

\* The second fields of the lines of the text, by positions.
RefUrls(t) ==
    LET second == { i \in FieldStarts(t) :
                      Cardinality({ j \in FieldStarts(t) :
                                      j < i /\ LineOf(t, j) = LineOf(t, i) }) = 1 }
    IN  { SubSeq(t, i, FieldEnd(t, i)) : i \in second }

\* C7: urls_from_output gives exactly the set of the second
\* whitespace-separated fields of the lines that have two or more fields;
\* the four lines of the test, over two URLs, give exactly those two.
C7_SecondFields ==
    [][ (pc = "listed" /\ pc' = "extracted")
        => /\ urls' = RefUrls(raw_output)
           /\ raw_output = TestRemotes => urls' = {GitLabSsh, GitHubSsh} ]_vars

\* The listing of the test was read and gave its two URLs.
C7_Witness ==
    /\ pc = "extracted"
    /\ urls = {GitLabSsh, GitHubSsh}
    /\ Cardinality(urls) = 2

\* The browser command was spawned and waited for.
BrowserRan == Len(cmds) = 2 /\ cmds[2].spawned

\* C8: the process ends with a non-zero status on every failure (git or
\* the browser cannot be run, no URL, platform not supported) and with
\* zero whenever the browser was spawned and waited for, whatever status
\* the browser ended with.
C8_ExitStatus ==
    pc = "done"
    => /\ exit_code # <<>>
       /\ BrowserRan => exit_code = <<0>>
       /\ ~cmds[1].spawned => exit_code[1] # 0
       /\ (Chose /\ urls = {}) => exit_code[1] # 0
       /\ (Len(cmds) = 2 /\ ~cmds[2].spawned) => exit_code[1] # 0
       /\ OS \notin {"macos", "linux"} => exit_code[1] # 0
       /\ ~BrowserRan => exit_code[1] # 0

\* The browser ended with a failure status and the process with zero.
C8_Witness ==
    /\ pc = "done"
    /\ BrowserRan
    /\ cmds[2].status = <<1>>
    /\ exit_code = <<0>>

\* open_url was called and has ended.
Opened == pc = "done" /\ url # <<>>

\* C9, as stated: on macos open_url runs open; on linux the command BROWSER
\* names, or firefox when BROWSER is unset; each with the URL as the only
\* argument; elsewhere it panics and runs nothing.
C9_Dispatch ==
    Opened
    => /\ OS = "macos"
          => Len(cmds) = 2 /\ cmds[2].prog = "open" /\ cmds[2].args = <<formatted>>
       /\ OS = "linux"
          => /\ Len(cmds) = 2
             /\ cmds[2].prog = (IF BROWSER = <<>> THEN "firefox" ELSE BROWSER[2])
             /\ cmds[2].args = <<formatted>>
       /\ OS \notin {"macos", "linux"}
          => Len(cmds) = 1 /\ result[1] = "panic"

\* C9, amended: as C9, with firefox also when BROWSER is set to a value
\* that is not valid Unicode.
C9_DispatchUnicode ==
    Opened
    => /\ OS = "macos"
          => Len(cmds) = 2 /\ cmds[2].prog = "open" /\ cmds[2].args = <<formatted>>
       /\ OS = "linux"
          => /\ Len(cmds) = 2
             /\ cmds[2].prog = (IF BROWSER = <<>> \/ BROWSER[1] = "NotUnicode"
                                THEN "firefox" ELSE BROWSER[2])
             /\ cmds[2].args = <<formatted>>
       /\ OS \notin {"macos", "linux"}
          => Len(cmds) = 1 /\ result[1] = "panic"

\* On linux the browser BROWSER names was run on the URL.
C9_Witness ==
    /\ Opened
    /\ OS = "linux"
    /\ BROWSER = <<"Unicode", "chromium">>
    /\ Len(cmds) = 2
    /\ cmds[2].prog = "chromium"
    /\ cmds[2].args = <<Https \o <<"a", "/", "r">>>>

\* The order of the stages: each position and the positions that follow it.
StageOrder ==
    { <<"start", "listed">>, <<"start", "done">>,
      <<"listed", "extracted">>,
      <<"extracted", "chosen">>, <<"extracted", "select_from_list">>,
      <<"extracted", "done">>,
      <<"select_from_list", "select_loop">>,
      <<"select_loop", "select_loop">>, <<"select_loop", "chosen">>,
      <<"select_loop", "done">>,
      <<"chosen", "done">> }

\* C10: the stages follow one another in the order list, select, format,
\* launch; the browser is run at most once, only after git ran and a URL
\* was chosen, and on format_url(u) for a URL u of the extracted set.
C10_StageOrder ==
    [][ /\ <<pc, pc'>> \in StageOrder
        /\ Len(cmds') > Len(cmds)
           => \/ /\ pc = "start"
                 /\ cmds = <<>>
                 /\ cmds'[1].prog = "git"
              \/ /\ pc = "chosen"
                 /\ Len(cmds) = 1
                 /\ cmds[1].prog = "git"
                 /\ cmds[1].spawned
                 /\ url # <<>>
                 /\ url[1] \in urls
                 /\ cmds' = Append(cmds, cmds'[2])
                 /\ cmds'[2].args = <<format_url(url[1])>>
                 /\ pc' = "done"
        /\ pc' = "chosen" => url' # <<>> /\ url'[1] \in urls'
        /\ result' = <<"Ok">>
           => /\ pc = "chosen"
              /\ Len(cmds') = 2
              /\ formatted' = format_url(url[1]) ]_vars

\* The browser was run on the rewritten form of a URL of the set.
C10_Witness ==
    /\ pc = "done"
    /\ BrowserRan
    /\ url = <<SshA>>
    /\ SshA \in urls
    /\ formatted = Https \o <<"a", "/", "r">>
    /\ cmds[2].args = <<formatted>>

====
